---- MODULE Spec2Model ----
(***************************************************************************)
(* Model of the classifierPerformance library: EvalPerformance (the        *)
(* confusion-matrix sweep over the distinct prediction values),            *)
(* PrecisionRecall and Roc (the curves derived from a sweep), AUC and      *)
(* Optimum (on arbitrary curves) and ReadPredictions (the table reader).   *)
(*                                                                         *)
(* Scores are float64 in the source.  The sweep only compares scores       *)
(* (Less, sort.Float64s) and uses them as map keys, so a score is modelled *)
(* by an integer k that stands for the finite float k/10.  Curve values    *)
(* are modelled as exact fractions <<n, d>> in lowest terms with d > 0,    *)
(* extended by the IEEE specials a division by zero produces:              *)
(* <<0, 0>> is NaN, <<1, 0>> is +Inf and <<-1, 0>> is -Inf.                *)
(***************************************************************************)
EXTENDS Integers, Sequences, FiniteSets, TLC

VARIABLES
  values,      \* the caller's values slice (sorted in place by the call)
  labels,      \* the caller's labels slice (permuted along with values)
  in_values,   \* contents of values when EvalPerformance was called
  in_labels,   \* contents of labels when EvalPerformance was called
  pc,          \* "call", "scan", "returned", "curve", "roc"; "idle" when unused
  i,           \* loop index of the scan (1-based)
  n_pos,       \* running count of label 1
  n_neg,       \* running count of label 0
  n_pos_map,   \* score -> n_pos after the last sample seen with that score
  n_neg_map,   \* score -> n_neg after the last sample seen with that score
  perf,        \* the Performance returned by EvalPerformance
  err,         \* TRUE iff EvalPerformance returned a non-nil error
  normalize,   \* the normalize argument of the PrecisionRecall call
  recall,      \* first result of PrecisionRecall
  precision,   \* second result of PrecisionRecall
  fpr,         \* first result of Roc
  tpr,         \* second result of Roc
  cx,          \* argument x of AUC and Optimum
  cy,          \* argument y of AUC and Optimum
  ctr,         \* argument tr of Optimum
  area,        \* result of AUC
  opt,         \* result of Optimum (1-based index)
  cpc,         \* "args", "auc", "optimum", "panic"
  table,       \* the lines of the reader's input, each a list of fields
  rd_pc,       \* "idle", "header", "rows", "done", "panic"
  rd_line,     \* index of the next line the scanner returns
  i_predictions, \* column of the predictions, -1 when not found (0-based)
  i_labels,    \* column of the labels, -1 when not found (0-based)
  rd_values,   \* values read so far, then the first result of ReadPredictions
  rd_labels,   \* labels read so far, then the second result
  rd_err       \* TRUE iff ReadPredictions returned a non-nil error

evalVars == <<values, labels, in_values, in_labels, pc, i, n_pos, n_neg,
              n_pos_map, n_neg_map, perf, err, normalize, recall, precision,
              fpr, tpr>>

curveVars == <<cx, cy, ctr, area, opt, cpc>>

readerVars == <<table, rd_pc, rd_line, i_predictions, i_labels, rd_values,
                rd_labels, rd_err>>

vars == <<evalVars, curveVars, readerVars>>

-----------------------------------------------------------------------------
(* Bounds of the model *)

MaxN == 3
MaxScore == 3
MaxLabel == 2

MaxLen == 3
MaxDen == 1
MaxRows == 2
MaxFields == 2

ScoreSet == 1..MaxScore
LabelSet == 0..MaxLabel

\* the dataset of the documented example: scores 0.1 0.2 0.3 0.4
ExampleValues == <<1, 2, 3, 4>>
ExampleLabels == <<0, 0, 1, 1>>

SeqsUpTo(S, n) == UNION {[1..k -> S] : k \in 0..n}

-----------------------------------------------------------------------------
(* float64 arithmetic on small integers *)

Abs(x) == IF x < 0 THEN -x ELSE x

RECURSIVE Gcd(_, _)
Gcd(a, b) == IF b = 0 THEN a ELSE Gcd(b, a % b)

NaN == <<0, 0>>

Norm(n, d) ==
  IF d = 0 THEN (IF n = 0 THEN NaN ELSE IF n > 0 THEN <<1, 0>> ELSE <<-1, 0>>)
  ELSE LET s == IF d < 0 THEN -1 ELSE 1
           g == Gcd(Abs(n), Abs(d))
       IN  <<(s * n) \div g, (s * d) \div g>>

Float64(k) == <<k, 1>>

IsNaN(a) == a[1] = 0 /\ a[2] = 0
IsInf(a) == a[1] # 0 /\ a[2] = 0

\* a / b
FDiv(a, b) ==
  IF IsNaN(a) \/ IsNaN(b) THEN NaN
  ELSE IF IsInf(a) THEN (IF IsInf(b) THEN NaN
                         ELSE IF b[1] < 0 THEN <<-a[1], 0>> ELSE a)
  ELSE IF IsInf(b) THEN <<0, 1>>
  ELSE Norm(a[1] * b[2], a[2] * b[1])

\* a - b
FSub(a, b) ==
  IF IsNaN(a) \/ IsNaN(b) THEN NaN
  ELSE IF IsInf(a) THEN (IF IsInf(b) /\ a[1] = b[1] THEN NaN ELSE a)
  ELSE IF IsInf(b) THEN <<-b[1], 0>>
  ELSE Norm(a[1] * b[2] - b[1] * a[2], a[2] * b[2])

\* the == of float64: NaN is equal to nothing
FEq(a, b) == ~IsNaN(a) /\ ~IsNaN(b) /\ a = b

\* a + b
FAdd(a, b) ==
  IF IsNaN(a) \/ IsNaN(b) THEN NaN
  ELSE IF IsInf(a) THEN (IF IsInf(b) /\ a[1] # b[1] THEN NaN ELSE a)
  ELSE IF IsInf(b) THEN b
  ELSE Norm(a[1] * b[2] + b[1] * a[2], a[2] * b[2])

\* a * b
FMul(a, b) ==
  IF IsNaN(a) \/ IsNaN(b) THEN NaN ELSE Norm(a[1] * b[1], a[2] * b[2])

\* math.Abs
FAbs(a) == <<Abs(a[1]), a[2]>>

\* a > b: false when either is NaN
FGt(a, b) ==
  /\ ~IsNaN(a)
  /\ ~IsNaN(b)
  /\ IF a[2] = 0 /\ b[2] = 0 THEN a[1] > b[1] ELSE a[1] * b[2] > b[1] * a[2]

\* math.Inf(-1)
NegInf == <<-1, 0>>

-----------------------------------------------------------------------------
(* sort.Sort(Predictions{values, labels}) *)

Perms(n) == {f \in [1..n -> 1..n] : \A a, b \in 1..n : f[a] = f[b] => a = b}

\* Predictions.Less
Less(v, a, b) == v[a] < v[b]

\* Predictions.Swap applied along a permutation: both slices move together
Permute(v, l, p) == <<[k \in 1..Len(v) |-> v[p[k]]], [k \in 1..Len(v) |-> l[p[k]]]>>

IsSorted(v) == \A a, b \in 1..Len(v) : a < b => ~Less(v, b, a)

SortOutcomes_nosort(v, l) == {<<v, l>>}

SortOutcomes_descending(v, l) ==
  {Permute(v, l, p) : p \in
     {q \in Perms(Len(v)) : \A a, b \in 1..Len(v) : a < b => v[q[a]] >= v[q[b]]}}

\* sort.Sort is not stable: every arrangement that is ordered by Less is a
\* possible outcome
SortOutcomes(v, l) ==
  {Permute(v, l, p) : p \in {q \in Perms(Len(v)) : IsSorted(Permute(v, l, q)[1])}}

-----------------------------------------------------------------------------
(* the scan loop of EvalPerformance *)

EmptyMap == [k \in {} |-> 0]

Put(m, k, c) == [x \in (DOMAIN m) \cup {k} |-> IF x = k THEN c ELSE m[x]]

ScanInit == [n_pos |-> 0, n_neg |-> 0, n_pos_map |-> EmptyMap,
             n_neg_map |-> EmptyMap, invalid |-> FALSE]

\* the variant that does not reject a label other than 0 and 1
ScanBody_novalidate(s, v, l) ==
  LET np == IF l = 1 THEN s.n_pos + 1 ELSE s.n_pos
      nn == IF l = 0 THEN s.n_neg + 1 ELSE s.n_neg
  IN  [n_pos |-> np, n_neg |-> nn,
       n_pos_map |-> Put(s.n_pos_map, v, np),
       n_neg_map |-> Put(s.n_neg_map, v, nn), invalid |-> FALSE]

\* the counts are recorded before the sample is counted
ScanBody_recordbefore(s, v, l) ==
  IF l \notin {0, 1} THEN [s EXCEPT !.invalid = TRUE]
  ELSE [n_pos |-> IF l = 1 THEN s.n_pos + 1 ELSE s.n_pos,
        n_neg |-> IF l = 0 THEN s.n_neg + 1 ELSE s.n_neg,
        n_pos_map |-> Put(s.n_pos_map, v, s.n_pos),
        n_neg_map |-> Put(s.n_neg_map, v, s.n_neg), invalid |-> FALSE]

\* a score already in the maps keeps its first counts
ScanBody_keepfirst(s, v, l) ==
  IF l \notin {0, 1} THEN [s EXCEPT !.invalid = TRUE]
  ELSE LET np == IF l = 1 THEN s.n_pos + 1 ELSE s.n_pos
           nn == IF l = 0 THEN s.n_neg + 1 ELSE s.n_neg
       IN  [n_pos |-> np, n_neg |-> nn,
            n_pos_map |-> IF v \in DOMAIN s.n_pos_map THEN s.n_pos_map
                          ELSE Put(s.n_pos_map, v, np),
            n_neg_map |-> IF v \in DOMAIN s.n_neg_map THEN s.n_neg_map
                          ELSE Put(s.n_neg_map, v, nn),
            invalid |-> FALSE]

\* one iteration of the loop over values: count the label, or reject it,
\* then overwrite the map entries of the score with the running counts
ScanBody(s, v, l) ==
  IF l = 1 THEN
    [n_pos |-> s.n_pos + 1, n_neg |-> s.n_neg,
     n_pos_map |-> Put(s.n_pos_map, v, s.n_pos + 1),
     n_neg_map |-> Put(s.n_neg_map, v, s.n_neg), invalid |-> FALSE]
  ELSE IF l = 0 THEN
    [n_pos |-> s.n_pos, n_neg |-> s.n_neg + 1,
     n_pos_map |-> Put(s.n_pos_map, v, s.n_pos),
     n_neg_map |-> Put(s.n_neg_map, v, s.n_neg + 1), invalid |-> FALSE]
  ELSE [s EXCEPT !.invalid = TRUE]

-----------------------------------------------------------------------------
(* the list of unique thresholds and the confusion matrices *)

RECURSIVE Insert(_, _)
Insert(s, x) ==
  IF s = <<>> THEN <<x>>
  ELSE IF x < Head(s) THEN <<x>> \o s
  ELSE <<Head(s)>> \o Insert(Tail(s), x)

\* sort.Float64s
RECURSIVE SortFloat64s(_)
SortFloat64s(s) == IF s = <<>> THEN <<>> ELSE Insert(SortFloat64s(Tail(s)), Head(s))

\* range over a map: the keys, in an order the runtime chooses
RECURSIVE KeysOf(_)
KeysOf(S) == IF S = {} THEN <<>>
             ELSE LET k == CHOOSE x \in S : TRUE IN <<k>> \o KeysOf(S \ {k})

\* one threshold per sample instead of one per map key
ThresholdList_fromvalues(m, v) == SortFloat64s(v)

ThresholdList(m, v) == SortFloat64s(KeysOf(DOMAIN m))

EmptyPerformance == [Tr |-> <<>>, Tp |-> <<>>, Fp |-> <<>>, Tn |-> <<>>,
                     Fn |-> <<>>, P |-> 0, N |-> 0]

\* fn is read from the map of the negatives
Confusion_copypaste(tr, s) ==
  [Tr |-> tr,
   Tp |-> [k \in 1..Len(tr) |-> s.n_pos - s.n_pos_map[tr[k]]],
   Fp |-> [k \in 1..Len(tr) |-> s.n_neg - s.n_neg_map[tr[k]]],
   Tn |-> [k \in 1..Len(tr) |-> s.n_neg_map[tr[k]]],
   Fn |-> [k \in 1..Len(tr) |-> s.n_neg_map[tr[k]]],
   P |-> s.n_pos, N |-> s.n_neg]

\* tp and fn, fp and tn exchanged
Confusion_swapped(tr, s) ==
  [Tr |-> tr,
   Tp |-> [k \in 1..Len(tr) |-> s.n_pos_map[tr[k]]],
   Fp |-> [k \in 1..Len(tr) |-> s.n_neg_map[tr[k]]],
   Tn |-> [k \in 1..Len(tr) |-> s.n_neg - s.n_neg_map[tr[k]]],
   Fn |-> [k \in 1..Len(tr) |-> s.n_pos - s.n_pos_map[tr[k]]],
   P |-> s.n_pos, N |-> s.n_neg]

Confusion(tr, s) ==
  [Tr |-> tr,
   Tp |-> [k \in 1..Len(tr) |-> s.n_pos - s.n_pos_map[tr[k]]],
   Fp |-> [k \in 1..Len(tr) |-> s.n_neg - s.n_neg_map[tr[k]]],
   Tn |-> [k \in 1..Len(tr) |-> s.n_neg_map[tr[k]]],
   Fn |-> [k \in 1..Len(tr) |-> s.n_pos_map[tr[k]]],
   P |-> s.n_pos, N |-> s.n_neg]

\* EvalPerformance after the sort, as a function of the sorted slices:
\* <<Performance, error>>
RECURSIVE ScanFrom(_, _, _, _)
ScanFrom(s, v, l, k) ==
  IF k > Len(v) THEN s
  ELSE LET t == ScanBody(s, v[k], l[k])
       IN  IF t.invalid THEN t ELSE ScanFrom(t, v, l, k + 1)

Sweep(v, l) ==
  LET s == ScanFrom(ScanInit, v, l, 1)
  IN  IF s.invalid THEN <<EmptyPerformance, TRUE>>
      ELSE <<Confusion(ThresholdList(s.n_pos_map, v), s), FALSE>>

-----------------------------------------------------------------------------
(* PrecisionRecall *)

Zero == Float64(0)

\* without the carry-forward of the previous precision
PRLoop_nocarry(p, k, r, q) ==
  <<[j \in 1..Len(p.Tr) |-> IF p.Tp[j] > 0
        THEN FDiv(Float64(p.Tp[j]), Float64(p.Tp[j] + p.Fn[j])) ELSE Zero],
    [j \in 1..Len(p.Tr) |-> IF p.Tp[j] > 0
        THEN FDiv(Float64(p.Tp[j]), Float64(p.Tp[j] + p.Fp[j])) ELSE Zero]>>

\* the first loop, from index k on; r and q are recall and precision so far
RECURSIVE PRLoop(_, _, _, _)
PRLoop(p, k, r, q) ==
  IF k > Len(p.Tr) THEN <<r, q>>
  ELSE IF p.Tp[k] > 0 THEN
    PRLoop(p, k + 1,
           [r EXCEPT ![k] = FDiv(Float64(p.Tp[k]), Float64(p.Tp[k] + p.Fn[k]))],
           [q EXCEPT ![k] = FDiv(Float64(p.Tp[k]), Float64(p.Tp[k] + p.Fp[k]))])
  ELSE IF k > 1 THEN PRLoop(p, k + 1, r, [q EXCEPT ![k] = q[k - 1]])
  ELSE PRLoop(p, k + 1, r, q)

\* the difference to the base rate is not divided by 1 - c
Normalize_nodenominator(p, q) ==
  LET c == FDiv(Float64(p.P), Float64(p.P + p.N))
  IN  [j \in 1..Len(q) |-> FSub(q[j], c)]

\* the second loop
Normalize(p, q) ==
  LET c == FDiv(Float64(p.P), Float64(p.P + p.N))
  IN  [j \in 1..Len(q) |-> FDiv(FSub(q[j], c), FSub(Float64(1), c))]

PrecisionRecall(p, norm) ==
  LET z  == [j \in 1..Len(p.Tr) |-> Zero]
      rq == PRLoop(p, 1, z, z)
  IN  <<rq[1], IF norm THEN Normalize(p, rq[2]) ELSE rq[2]>>

-----------------------------------------------------------------------------
(* Roc *)

\* the two results in the order tpr, fpr
Roc_swapped(p) ==
  <<[j \in 1..Len(p.Tr) |-> FDiv(Float64(p.Tp[j]), Float64(p.P))],
    [j \in 1..Len(p.Tr) |-> FDiv(Float64(p.Fp[j]), Float64(p.N))]>>

\* <<fpr, tpr>>
Roc(p) ==
  <<[j \in 1..Len(p.Tr) |-> FDiv(Float64(p.Fp[j]), Float64(p.N))],
    [j \in 1..Len(p.Tr) |-> FDiv(Float64(p.Tp[j]), Float64(p.P))]>>

-----------------------------------------------------------------------------
(* AUC and Optimum *)

\* the loop of AUC from index k on (1-based: k = 2 is the source's i = 1)
RECURSIVE AUCLoop(_, _, _, _)
AUCLoop(x, y, k, result) ==
  IF k > Len(x) THEN result
  ELSE LET dx == FAbs(FSub(x[k], x[k - 1]))
           dy == FDiv(FAdd(y[k], y[k - 1]), Float64(2))
       IN  AUCLoop(x, y, k + 1, FAdd(result, FMul(dx, dy)))

\* the signed width x[i] - x[i-1]
RECURSIVE AUCLoopSigned(_, _, _, _)
AUCLoopSigned(x, y, k, result) ==
  IF k > Len(x) THEN result
  ELSE LET dx == FSub(x[k], x[k - 1])
           dy == FDiv(FAdd(y[k], y[k - 1]), Float64(2))
       IN  AUCLoopSigned(x, y, k + 1, FAdd(result, FMul(dx, dy)))

AUC_signed(x, y) == AUCLoopSigned(x, y, 2, Zero)

\* the height y[i] in place of the mean of y[i] and y[i-1]
RECURSIVE AUCLoopStep(_, _, _, _)
AUCLoopStep(x, y, k, result) ==
  IF k > Len(x) THEN result
  ELSE AUCLoopStep(x, y, k + 1,
                   FAdd(result, FMul(FAbs(FSub(x[k], x[k - 1])), y[k])))

AUC_rectangle(x, y) == AUCLoopStep(x, y, 2, Zero)

\* without the division of y[i] + y[i-1] by 2
RECURSIVE AUCLoopNoHalf(_, _, _, _)
AUCLoopNoHalf(x, y, k, result) ==
  IF k > Len(x) THEN result
  ELSE AUCLoopNoHalf(x, y, k + 1,
         FAdd(result, FMul(FAbs(FSub(x[k], x[k - 1])), FAdd(y[k], y[k - 1]))))

AUC_nohalf(x, y) == AUCLoopNoHalf(x, y, 2, Zero)

\* AUC for arguments of equal length (the other case panics)
AUC(x, y) == AUCLoop(x, y, 2, Zero)

\* the loop of Optimum from index j on; k and v are the best so far
RECURSIVE OptimumLoop(_, _, _, _, _, _)
OptimumLoop(tr, x, y, j, k, v) ==
  IF j > Len(tr) THEN k
  ELSE LET r == FMul(x[j], y[j])
       IN  IF FGt(r, v) THEN OptimumLoop(tr, x, y, j + 1, j, r)
           ELSE OptimumLoop(tr, x, y, j + 1, k, v)

\* a later index replaces an equal product: r >= v
RECURSIVE OptimumLoopLast(_, _, _, _, _, _)
OptimumLoopLast(tr, x, y, j, k, v) ==
  IF j > Len(tr) THEN k
  ELSE LET r == FMul(x[j], y[j])
       IN  IF FGt(r, v) \/ FEq(r, v) THEN OptimumLoopLast(tr, x, y, j + 1, j, r)
           ELSE OptimumLoopLast(tr, x, y, j + 1, k, v)

Optimum_lasttie(tr, x, y) == OptimumLoopLast(tr, x, y, 1, 1, NegInf)

\* Optimum for len(x) >= len(tr) and len(y) >= len(tr) (otherwise an index is
\* out of range); the result is the 1-based index, the source's k + 1
Optimum(tr, x, y) == OptimumLoop(tr, x, y, 1, 1, NegInf)

-----------------------------------------------------------------------------
(* ReadPredictions: a line is the list of its fields (strings.Fields) *)

\* strconv.ParseInt(f, 10, 64) succeeds
ParseIntOk(f) == f \in {"0", "1", "2"}

ParseInt(f) == IF f = "0" THEN 0 ELSE IF f = "1" THEN 1 ELSE 2

\* strconv.ParseFloat(f, 64) succeeds
ParseFloatOk(f) == f \in {"0", "1", "2", "0.5"}

ParseFloat(f) == IF f = "0.5" THEN <<1, 2>> ELSE Float64(ParseInt(f))

\* the column (0-based) of the last of the two header fields that is one of
\* the names, -1 when there is none
Column(fields, names) ==
  IF fields[2] \in names THEN 1 ELSE IF fields[1] \in names THEN 0 ELSE -1

\* the header line: "error", or the two columns
HeaderOutcome(fields) ==
  IF Len(fields) # 2 THEN [kind |-> "error", ip |-> -1, il |-> -1]
  ELSE LET ip == Column(fields, {"predictions", "prediction"})
           il == Column(fields, {"labels", "label"})
       IN  IF ip = -1 \/ il = -1 THEN [kind |-> "error", ip |-> ip, il |-> il]
           ELSE [kind |-> "ok", ip |-> ip, il |-> il]

\* one data line: fields[il] and fields[ip] are indexed without a check of
\* len(fields), so a short line ends in a run-time panic
RowOutcome(fields, ip, il) ==
  IF il + 1 > Len(fields) THEN [kind |-> "panic", value |-> Zero, label |-> 0]
  ELSE IF ~ParseIntOk(fields[il + 1]) THEN [kind |-> "error", value |-> Zero, label |-> 0]
  ELSE IF ip + 1 > Len(fields) THEN [kind |-> "panic", value |-> Zero, label |-> 0]
  ELSE IF ~ParseFloatOk(fields[ip + 1]) THEN [kind |-> "error", value |-> Zero, label |-> 0]
  ELSE IF ParseInt(fields[il + 1]) # 0 /\ ParseInt(fields[il + 1]) # 1
       THEN [kind |-> "error", value |-> Zero, label |-> 0]
  ELSE [kind |-> "ok", value |-> ParseFloat(fields[ip + 1]),
        label |-> ParseInt(fields[il + 1])]

-----------------------------------------------------------------------------
(* input domains *)

\* the curve values 0, 1/MaxDen, ..., 1 and NaN
FloatSet == {Norm(n, MaxDen) : n \in 0..MaxDen} \cup {NaN}

\* the documented example of Optimum: x = 0.1 0.9 0.5, y = 0.2 0.8 0.9
OptimumExampleX == <<(<<1, 10>>), (<<9, 10>>), (<<1, 2>>)>>
OptimumExampleY == <<(<<1, 5>>), (<<4, 5>>), (<<9, 10>>)>>

\* the documented example of AUC: x = 0 0.5 1, y = 0 0 1
AUCExampleX == <<(<<0, 1>>), (<<1, 2>>), (<<1, 1>>)>>
AUCExampleY == <<(<<0, 1>>), (<<0, 1>>), (<<1, 1>>)>>

\* thresholds passed to Optimum: ascending or descending
TrChoices(n) == {[k \in 1..n |-> k], [k \in 1..n |-> n + 1 - k]}

\* a dataset with P = N in which a threshold has precision 1/2
BalancedValues == <<1, 1, 2, 2>>
BalancedLabels == <<1, 0, 0, 1>>

FieldSet == {"0", "1", "2", "0.5", "abc"}

HeaderSet == {<<"prediction", "label">>, <<"labels", "predictions">>,
              <<"label">>, <<"prediction", "abc">>, <<"abc", "label">>}

RowSet == SeqsUpTo(FieldSet, MaxFields)

TableSet == {<<>>} \cup {<<h>> \o r : h \in HeaderSet, r \in SeqsUpTo(RowSet, MaxRows)}

-----------------------------------------------------------------------------
(* the state machine *)

EvalIdle ==
  /\ in_values = <<>>
  /\ in_labels = <<>>
  /\ values = <<>>
  /\ labels = <<>>
  /\ pc = "idle"
  /\ i = 1
  /\ n_pos = 0
  /\ n_neg = 0
  /\ n_pos_map = EmptyMap
  /\ n_neg_map = EmptyMap
  /\ perf = EmptyPerformance
  /\ err = FALSE
  /\ normalize = FALSE
  /\ recall = <<>>
  /\ precision = <<>>
  /\ fpr = <<>>
  /\ tpr = <<>>

CurveIdle ==
  /\ cx = <<>>
  /\ cy = <<>>
  /\ ctr = <<>>
  /\ area = Zero
  /\ opt = 1
  /\ cpc = "idle"

ReaderIdle ==
  /\ table = <<>>
  /\ rd_pc = "idle"
  /\ rd_line = 1
  /\ i_predictions = -1
  /\ i_labels = -1
  /\ rd_values = <<>>
  /\ rd_labels = <<>>
  /\ rd_err = FALSE

Init ==
  /\ \/ /\ in_values \in SeqsUpTo(ScoreSet, MaxN)
        /\ in_labels \in [1..Len(in_values) -> LabelSet]
     \/ /\ in_values = ExampleValues
        /\ in_labels = ExampleLabels
     \/ /\ in_values = BalancedValues
        /\ in_labels = BalancedLabels
  /\ values = in_values
  /\ labels = in_labels
  /\ pc = "call"
  /\ i = 1
  /\ n_pos = 0
  /\ n_neg = 0
  /\ n_pos_map = EmptyMap
  /\ n_neg_map = EmptyMap
  /\ perf = EmptyPerformance
  /\ err = FALSE
  /\ normalize = FALSE
  /\ recall = <<>>
  /\ precision = <<>>
  /\ fpr = <<>>
  /\ tpr = <<>>
  /\ CurveIdle
  /\ ReaderIdle

ScanState == [n_pos |-> n_pos, n_neg |-> n_neg, n_pos_map |-> n_pos_map,
              n_neg_map |-> n_neg_map, invalid |-> FALSE]

\* EvalPerformance, entry: the sort of the caller's slices
Sort ==
  /\ pc = "call"
  /\ \E o \in SortOutcomes(values, labels) :
       /\ values' = o[1]
       /\ labels' = o[2]
  /\ pc' = "scan"
  /\ UNCHANGED <<in_values, in_labels, i, n_pos, n_neg, n_pos_map, n_neg_map,
                 perf, err, normalize, recall, precision, fpr, tpr,
                 curveVars, readerVars>>

\* EvalPerformance, one iteration of the scan
ScanStep ==
  /\ pc = "scan"
  /\ i <= Len(values)
  /\ LET t == ScanBody(ScanState, values[i], labels[i])
     IN  IF t.invalid
         THEN /\ perf' = EmptyPerformance
              /\ err' = TRUE
              /\ pc' = "returned"
              /\ UNCHANGED <<i, n_pos, n_neg, n_pos_map, n_neg_map>>
         ELSE /\ n_pos' = t.n_pos
              /\ n_neg' = t.n_neg
              /\ n_pos_map' = t.n_pos_map
              /\ n_neg_map' = t.n_neg_map
              /\ i' = i + 1
              /\ UNCHANGED <<perf, err, pc>>
  /\ UNCHANGED <<values, labels, in_values, in_labels, normalize, recall, precision,
                 fpr, tpr, curveVars, readerVars>>

\* EvalPerformance, after the scan: thresholds, confusion matrices, return
Build ==
  /\ pc = "scan"
  /\ i > Len(values)
  /\ perf' = Confusion(ThresholdList(n_pos_map, values), ScanState)
  /\ err' = FALSE
  /\ pc' = "returned"
  /\ UNCHANGED <<values, labels, in_values, in_labels, i, n_pos, n_neg,
                 n_pos_map, n_neg_map, normalize, recall, precision, fpr, tpr,
                 curveVars, readerVars>>

\* PrecisionRecall(perf, normalize) on a sweep that was returned without error
CallPrecisionRecall ==
  /\ pc = "returned"
  /\ ~err
  /\ \E norm \in BOOLEAN :
       /\ normalize' = norm
       /\ recall' = PrecisionRecall(perf, norm)[1]
       /\ precision' = PrecisionRecall(perf, norm)[2]
  /\ pc' = "curve"
  /\ UNCHANGED <<values, labels, in_values, in_labels, i, n_pos, n_neg,
                 n_pos_map, n_neg_map, perf, err, fpr, tpr, curveVars, readerVars>>

\* Roc(perf) on a sweep that was returned without error
CallRoc ==
  /\ pc = "returned"
  /\ ~err
  /\ fpr' = Roc(perf)[1]
  /\ tpr' = Roc(perf)[2]
  /\ pc' = "roc"
  /\ UNCHANGED <<values, labels, in_values, in_labels, i, n_pos, n_neg,
                 n_pos_map, n_neg_map, perf, err, normalize, recall, precision,
                 curveVars, readerVars>>

Next == Sort \/ ScanStep \/ Build \/ CallPrecisionRecall \/ CallRoc

Spec == Init /\ [][Next]_vars

-----------------------------------------------------------------------------
(* AUC and Optimum called on arbitrary curves *)

InitCurve ==
  /\ \/ /\ cx \in SeqsUpTo(FloatSet, MaxLen)
        /\ cy \in SeqsUpTo(FloatSet, MaxLen)
     \/ /\ cx = OptimumExampleX
        /\ cy = OptimumExampleY
     \/ /\ cx = AUCExampleX
        /\ cy = AUCExampleY
  /\ ctr = <<>>
  /\ area = Zero
  /\ opt = 1
  /\ cpc = "args"
  /\ EvalIdle
  /\ ReaderIdle

\* AUC(x, y)
CallAUC ==
  /\ cpc = "args"
  /\ IF Len(cx) # Len(cy)
     THEN /\ cpc' = "panic"
          /\ UNCHANGED area
     ELSE /\ area' = AUC(cx, cy)
          /\ cpc' = "auc"
  /\ UNCHANGED <<cx, cy, ctr, opt, evalVars, readerVars>>

\* Optimum(tr, x, y) with as many thresholds as x has values
CallOptimum ==
  /\ cpc = "args"
  /\ \E t \in TrChoices(Len(cx)) :
       /\ ctr' = t
       /\ IF Len(cy) < Len(t)
          THEN /\ cpc' = "panic"
               /\ UNCHANGED opt
          ELSE /\ opt' = Optimum(t, cx, cy)
               /\ cpc' = "optimum"
  /\ UNCHANGED <<cx, cy, area, evalVars, readerVars>>

NextCurve == CallAUC \/ CallOptimum

SpecCurve == InitCurve /\ [][NextCurve]_vars

-----------------------------------------------------------------------------
(* ReadPredictions on a table *)

InitReader ==
  /\ table \in TableSet
  /\ rd_pc = "header"
  /\ rd_line = 1
  /\ i_predictions = -1
  /\ i_labels = -1
  /\ rd_values = <<>>
  /\ rd_labels = <<>>
  /\ rd_err = FALSE
  /\ EvalIdle
  /\ CurveIdle

\* return nil, nil, err
ReturnError ==
  /\ rd_values' = <<>>
  /\ rd_labels' = <<>>
  /\ rd_err' = TRUE
  /\ rd_pc' = "done"

\* the first scanner.Scan() and the header
ReadHeader ==
  /\ rd_pc = "header"
  /\ IF rd_line > Len(table)
     THEN /\ rd_pc' = "rows"
          /\ UNCHANGED <<rd_line, i_predictions, i_labels, rd_values, rd_labels, rd_err>>
     ELSE LET h == HeaderOutcome(table[rd_line])
          IN  /\ i_predictions' = h.ip
              /\ i_labels' = h.il
              /\ rd_line' = rd_line + 1
              /\ IF h.kind = "error" THEN ReturnError
                 ELSE /\ rd_pc' = "rows"
                      /\ UNCHANGED <<rd_values, rd_labels, rd_err>>
  /\ UNCHANGED <<table, evalVars, curveVars>>

\* one iteration of the loop over the data lines
ReadRow ==
  /\ rd_pc = "rows"
  /\ rd_line <= Len(table)
  /\ LET r == RowOutcome(table[rd_line], i_predictions, i_labels)
     IN  IF r.kind = "panic"
         THEN /\ rd_pc' = "panic"
              /\ UNCHANGED <<rd_values, rd_labels, rd_err>>
         ELSE IF r.kind = "error" THEN ReturnError
         ELSE /\ rd_values' = Append(rd_values, r.value)
              /\ rd_labels' = Append(rd_labels, r.label)
              /\ UNCHANGED <<rd_pc, rd_err>>
  /\ rd_line' = rd_line + 1
  /\ UNCHANGED <<table, i_predictions, i_labels, evalVars, curveVars>>

\* the scanner has no more lines: return values, labels, nil
ReadEnd ==
  /\ rd_pc = "rows"
  /\ rd_line > Len(table)
  /\ rd_pc' = "done"
  /\ UNCHANGED <<table, rd_line, i_predictions, i_labels, rd_values, rd_labels,
                 rd_err, evalVars, curveVars>>

NextReader == ReadHeader \/ ReadRow \/ ReadEnd

SpecReader == InitReader /\ [][NextReader]_vars

-----------------------------------------------------------------------------
(* Vocabulary of the properties: counts taken directly on the dataset as it  *)
(* was passed in                                                             *)

Returned == pc \in {"returned", "curve"}

Samples == 1..Len(in_values)

ValidInput == \A k \in Samples : in_labels[k] \in {0, 1}

Succeeded == Returned /\ ~err

\* number of samples with label lab
Total(lab) == Cardinality({k \in Samples : in_labels[k] = lab})

\* number of samples with label lab and score >= t, > t, <= t, < t
CountGe(lab, t) == Cardinality({k \in Samples : in_labels[k] = lab /\ in_values[k] >= t})
CountGt(lab, t) == Cardinality({k \in Samples : in_labels[k] = lab /\ in_values[k] > t})
CountLe(lab, t) == Cardinality({k \in Samples : in_labels[k] = lab /\ in_values[k] <= t})
CountLt(lab, t) == Cardinality({k \in Samples : in_labels[k] = lab /\ in_values[k] < t})

DistinctScores == {in_values[k] : k \in Samples}

SweepIdx == 1..Len(perf.Tr)

-----------------------------------------------------------------------------
\* C1: for a dataset whose labels are all 0 or 1, EvalPerformance returns a
\* sweep in which Tp[i] + Fn[i] = P and Fp[i] + Tn[i] = N at every index,
\* P and N being the numbers of samples labelled 1 and 0 in the dataset.
C1_TotalsPreserved ==
  (Returned /\ ValidInput) =>
     /\ ~err
     /\ perf.P = Total(1)
     /\ perf.N = Total(0)
     /\ \A k \in SweepIdx :
          /\ perf.Tp[k] + perf.Fn[k] = Total(1)
          /\ perf.Fp[k] + perf.Tn[k] = Total(0)

C1_Witness ==
  /\ Succeeded
  /\ Len(perf.Tr) >= 2
  /\ Total(1) >= 1
  /\ Total(0) >= 2
  /\ \E k \in SweepIdx : perf.Tp[k] > 0 /\ perf.Fn[k] > 0

\* C2 as stated: the confusion matrix at index i is the one of predicting
\* positive for score >= Tr[i] and negative for score < Tr[i].
C2_InclusiveThreshold ==
  Succeeded =>
     \A k \in SweepIdx :
        /\ perf.Tp[k] = CountGe(1, perf.Tr[k])
        /\ perf.Fp[k] = CountGe(0, perf.Tr[k])
        /\ perf.Fn[k] = CountLt(1, perf.Tr[k])
        /\ perf.Tn[k] = CountLt(0, perf.Tr[k])

\* C2 amended: the confusion matrix at index i is the one of predicting
\* positive for score > Tr[i] and negative for score <= Tr[i].
C2_ExclusiveThreshold ==
  Succeeded =>
     \A k \in SweepIdx :
        /\ perf.Tp[k] = CountGt(1, perf.Tr[k])
        /\ perf.Fp[k] = CountGt(0, perf.Tr[k])
        /\ perf.Fn[k] = CountLe(1, perf.Tr[k])
        /\ perf.Tn[k] = CountLe(0, perf.Tr[k])

C2_Witness ==
  /\ Succeeded
  /\ \E k \in SweepIdx :
       /\ CountGe(1, perf.Tr[k]) > CountGt(1, perf.Tr[k])
       /\ CountGe(0, perf.Tr[k]) > CountGt(0, perf.Tr[k])
       /\ perf.Tp[k] > 0

\* C3: with cp(t), cn(t) the numbers of label-1 and label-0 samples of score
\* <= t, every threshold t of the sweep has Fn = cp(t), Tp = P - cp(t),
\* Tn = cn(t), Fp = N - cn(t); for scores 0.1 0.2 0.3 0.4 with labels
\* 0 0 1 1 the entry at threshold 0.3 is tp=1, fp=0, fn=1, tn=2.
cp(t) == CountLe(1, t)
cn(t) == CountLe(0, t)

C3_CumulativeCounts ==
  Succeeded =>
     /\ \A k \in SweepIdx :
          /\ perf.Fn[k] = cp(perf.Tr[k])
          /\ perf.Tp[k] = perf.P - cp(perf.Tr[k])
          /\ perf.Tn[k] = cn(perf.Tr[k])
          /\ perf.Fp[k] = perf.N - cn(perf.Tr[k])
     /\ (in_values = ExampleValues /\ in_labels = ExampleLabels) =>
          /\ perf.Tr = <<1, 2, 3, 4>>
          /\ perf.Tp[3] = 1
          /\ perf.Fp[3] = 0
          /\ perf.Fn[3] = 1
          /\ perf.Tn[3] = 2

C3_Witness ==
  /\ Succeeded
  /\ in_values = ExampleValues
  /\ in_labels = ExampleLabels
  /\ perf.Tr[3] = 3

\* C4: Tr is strictly increasing and holds exactly the distinct scores of
\* the dataset, so its length is the number of distinct scores and at most
\* the number of samples; Tp, Fp, Tn, Fn have the length of Tr.
C4_DistinctThresholds ==
  (Returned /\ ValidInput) =>
     /\ \A a, b \in SweepIdx : a < b => perf.Tr[a] < perf.Tr[b]
     /\ {perf.Tr[k] : k \in SweepIdx} = DistinctScores
     /\ Len(perf.Tr) = Cardinality(DistinctScores)
     /\ Len(perf.Tr) <= Len(in_values)
     /\ Len(perf.Tp) = Len(perf.Tr)
     /\ Len(perf.Fp) = Len(perf.Tr)
     /\ Len(perf.Tn) = Len(perf.Tr)
     /\ Len(perf.Fn) = Len(perf.Tr)

C4_Witness ==
  /\ Succeeded
  /\ Len(perf.Tr) >= 2
  /\ Len(perf.Tr) < Len(in_values)
  /\ in_values[1] > in_values[Len(in_values)]

\* C5: for all indices a < b of the sweep, Tp[a] >= Tp[b], Fp[a] >= Fp[b],
\* Tn[a] <= Tn[b] and Fn[a] <= Fn[b], whatever the order of the samples
\* and whatever duplicate scores they contain.
C5_Monotone ==
  (Returned /\ ValidInput) =>
     \A a, b \in SweepIdx : a < b =>
        /\ perf.Tp[a] >= perf.Tp[b]
        /\ perf.Fp[a] >= perf.Fp[b]
        /\ perf.Tn[a] <= perf.Tn[b]
        /\ perf.Fn[a] <= perf.Fn[b]

C5_Witness ==
  /\ Succeeded
  /\ ~IsSorted(in_values)
  /\ Cardinality(DistinctScores) < Len(in_values)
  /\ \E a, b \in SweepIdx : a < b /\ perf.Tp[a] > perf.Tp[b] /\ perf.Tn[a] < perf.Tn[b]

\* C6: EvalPerformance on a dataset of zero samples returns an error.
C6_EmptyDatasetFails ==
  (Returned /\ Len(in_values) = 0) => err

\* C7: if any label is not 0 or 1, wherever it is in the input,
\* EvalPerformance returns an error and an empty Performance.
C7_InvalidLabelFails ==
  (Returned /\ ~ValidInput) => (err /\ perf = EmptyPerformance)

C7_Witness ==
  /\ Returned
  /\ err
  /\ Len(in_values) >= 3
  /\ in_labels[1] \in {0, 1}
  /\ in_labels[2] \in {0, 1}
  /\ in_labels[3] \notin {0, 1}
  /\ n_pos + n_neg >= 1

\* C8: when EvalPerformance has returned, the caller's values and labels
\* hold the same elements in the same order as before the call.
C8_InputUnchanged ==
  Returned => (values = in_values /\ labels = in_labels)

\* C9: for every permutation of the (score, label) pairs of a valid
\* dataset, and every outcome of the unstable sort, EvalPerformance returns
\* the same Tr, Tp, Fp, Tn, Fn, P and N.
C9_OrderIndependent ==
  (pc = "returned" /\ ValidInput) =>
     \A p \in Perms(Len(in_values)) :
        LET q == Permute(in_values, in_labels, p)
        IN  \A o \in SortOutcomes(q[1], q[2]) : Sweep(o[1], o[2]) = <<perf, err>>

C9_Witness ==
  /\ pc = "returned"
  /\ ~err
  /\ ~IsSorted(in_values)
  /\ \E a, b \in Samples :
       in_values[a] = in_values[b] /\ in_labels[a] # in_labels[b]
  /\ Len(perf.Tr) >= 2

\* C10 as stated: PrecisionRecall(perf, false) returns recall and precision
\* of the sweep's length with recall[i] = Tp[i]/(Tp[i]+Fn[i]) at every index,
\* precision[i] = Tp[i]/(Tp[i]+Fp[i]) when Tp[i] > 0, and, when Tp[i] = 0,
\* precision[i] = precision[i-1] for i > 0 and precision[0] = 0.
PrecisionRule(k) ==
  /\ perf.Tp[k] > 0 =>
       FEq(precision[k], FDiv(Float64(perf.Tp[k]), Float64(perf.Tp[k] + perf.Fp[k])))
  /\ (perf.Tp[k] = 0 /\ k > 1) => FEq(precision[k], precision[k - 1])
  /\ (perf.Tp[k] = 0 /\ k = 1) => FEq(precision[k], Zero)

C10_RecallEverywhere ==
  (pc = "curve" /\ ~normalize) =>
     /\ Len(recall) = Len(perf.Tr)
     /\ Len(precision) = Len(perf.Tr)
     /\ \A k \in SweepIdx :
          /\ FEq(recall[k], FDiv(Float64(perf.Tp[k]), Float64(perf.Tp[k] + perf.Fn[k])))
          /\ PrecisionRule(k)

\* C10 amended: the same, except that recall[i] = Tp[i]/(Tp[i]+Fn[i]) only
\* when Tp[i] > 0, and recall[i] = 0 when Tp[i] = 0.
C10_RecallGuarded ==
  (pc = "curve" /\ ~normalize) =>
     /\ Len(recall) = Len(perf.Tr)
     /\ Len(precision) = Len(perf.Tr)
     /\ \A k \in SweepIdx :
          /\ perf.Tp[k] > 0 =>
               FEq(recall[k], FDiv(Float64(perf.Tp[k]), Float64(perf.Tp[k] + perf.Fn[k])))
          /\ perf.Tp[k] = 0 => FEq(recall[k], Zero)
          /\ PrecisionRule(k)

C10_Witness ==
  /\ pc = "curve"
  /\ ~normalize
  /\ Len(perf.Tr) >= 2
  /\ perf.Tp[1] > 0
  /\ perf.Fp[1] > 0
  /\ perf.Tp[Len(perf.Tr)] = 0
  /\ ~FEq(precision[Len(perf.Tr)], Zero)

-----------------------------------------------------------------------------
\* C11: with normalize = true every precision value is (p - c)/(1 - c), p
\* being the value PrecisionRecall returns at the same index with
\* normalize = false and c = P/(P+N); recall is the same as without
\* normalization; with P = N an index of raw precision 1/2 gets exactly 0.
RawPrecision == PrecisionRecall(perf, FALSE)[2]

BaseRate == FDiv(Float64(perf.P), Float64(perf.P + perf.N))

C11_NormalizedPrecision ==
  (pc = "curve" /\ normalize) =>
     /\ recall = PrecisionRecall(perf, FALSE)[1]
     /\ Len(precision) = Len(perf.Tr)
     /\ \A k \in SweepIdx :
          /\ precision[k] = FDiv(FSub(RawPrecision[k], BaseRate),
                                 FSub(Float64(1), BaseRate))
          /\ (perf.P = perf.N /\ RawPrecision[k] = <<1, 2>>) => precision[k] = Zero

C11_Witness ==
  /\ pc = "curve"
  /\ normalize
  /\ perf.P = perf.N
  /\ \E k \in SweepIdx : perf.Tp[k] > 0 /\ RawPrecision[k] = <<1, 2>> /\ precision[k] = Zero
  /\ \E k \in SweepIdx : k > 1 /\ perf.Tp[k] = 0 /\ RawPrecision[k] # Zero

\* C12: for a sweep with P > 0 and N > 0, Roc returns two sequences of the
\* sweep's length, first the false-positive rate Fp[i]/N, then the
\* true-positive rate Tp[i]/P.
IsRatio(f, num, den) == f[2] > 0 /\ f[1] * den = num * f[2]

C12_RocRates ==
  (pc = "roc" /\ perf.P > 0 /\ perf.N > 0) =>
     /\ Len(fpr) = Len(perf.Tr)
     /\ Len(tpr) = Len(perf.Tr)
     /\ \A k \in SweepIdx :
          /\ IsRatio(fpr[k], perf.Fp[k], perf.N)
          /\ IsRatio(tpr[k], perf.Tp[k], perf.P)

C12_Witness ==
  /\ pc = "roc"
  /\ perf.P > 0
  /\ perf.N > 0
  /\ \E k \in SweepIdx : perf.Fp[k] > 0 /\ perf.Tp[k] > 0 /\ fpr[k] # tpr[k]

\* C13: for x and y of equal length AUC(x, y) is the sum over i = 1..len-1
\* of |x[i] - x[i-1]| * (y[i] + y[i-1]) / 2, which is 0 for length 0 or 1;
\* AUC([0,1],[1,1]) = 1.
One == Float64(1)

Half == <<1, 2>>

Trapezoid(x, y, k) ==
  FDiv(FMul(FAbs(FSub(x[k], x[k - 1])), FAdd(y[k], y[k - 1])), Float64(2))

RECURSIVE TrapezoidSum(_, _, _)
TrapezoidSum(x, y, k) ==
  IF k < 2 THEN Zero ELSE FAdd(Trapezoid(x, y, k), TrapezoidSum(x, y, k - 1))

C13_TrapezoidalRule ==
  cpc = "auc" =>
     /\ area = TrapezoidSum(cx, cy, Len(cx))
     /\ Len(cx) <= 1 => area = Zero
     /\ (cx = <<Zero, One>> /\ cy = <<One, One>>) => area = One

C13_Witness ==
  /\ cpc = "auc"
  /\ Len(cx) = 3
  /\ FGt(cx[1], cx[2])
  /\ FGt(cx[3], cx[2])
  /\ FGt(area, Zero)
  /\ cy[1] # cy[2]

\* C14 as stated: AUC([0, 0.5, 1], [0, 0, 1]) returns 0.5.
C14_AreaIsHalf ==
  (cpc = "auc" /\ cx = AUCExampleX /\ cy = AUCExampleY) => area = Half

\* C14 amended: AUC([0, 0.5, 1], [0, 0, 1]) returns 0.25.
C14_AreaIsQuarter ==
  (cpc = "auc" /\ cx = AUCExampleX /\ cy = AUCExampleY) => area = <<1, 4>>

C14_Witness ==
  /\ cpc = "auc"
  /\ cx = AUCExampleX
  /\ cy = AUCExampleY
  /\ area = <<1, 4>>

\* C15: AUC of the two sequences reversed is AUC of the sequences.
Reverse(q) == [k \in 1..Len(q) |-> q[Len(q) + 1 - k]]

C15_ReversalInvariant ==
  cpc = "auc" => AUC(Reverse(cx), Reverse(cy)) = area

C15_Witness ==
  /\ cpc = "auc"
  /\ Len(cx) = 3
  /\ Reverse(cx) # cx
  /\ Reverse(cy) # cy
  /\ FGt(area, Zero)
  /\ Trapezoid(cx, cy, 2) # Trapezoid(cx, cy, 3)

\* C16 as stated: for non-empty tr, x, y of equal length Optimum returns an
\* index k in range with x[k]*y[k] >= x[i]*y[i] for every i and
\* x[i]*y[i] < x[k]*y[k] for every i < k; the values of tr play no role; for
\* x = 0.1 0.9 0.5 and y = 0.2 0.8 0.9 the result is index 1 (the second).
Product(k) == FMul(cx[k], cy[k])

FGe(a, b) == FGt(a, b) \/ FEq(a, b)

OptimumArgsOK == cpc = "optimum" /\ Len(cx) >= 1 /\ Len(cy) = Len(cx)

OptimumIsFirstMaximum ==
  /\ opt \in 1..Len(cx)
  /\ \A k \in 1..Len(cx) : FGe(Product(opt), Product(k))
  /\ \A k \in 1..(opt - 1) : FGt(Product(opt), Product(k))
  /\ \A t \in [1..Len(ctr) -> {1, MaxScore}] : Optimum(t, cx, cy) = opt
  /\ (cx = OptimumExampleX /\ cy = OptimumExampleY) => opt = 2

C16_FirstMaximum ==
  OptimumArgsOK => OptimumIsFirstMaximum

\* C16 amended: the same, for x and y in which no product x[i]*y[i] is NaN.
C16_FirstMaximumNoNaN ==
  (OptimumArgsOK /\ \A k \in 1..Len(cx) : ~IsNaN(Product(k))) => OptimumIsFirstMaximum

C16_Witness ==
  /\ OptimumArgsOK
  /\ Len(cx) = 3
  /\ \A k \in 1..3 : ~IsNaN(Product(k))
  /\ opt = 2
  /\ FEq(Product(3), Product(2))
  /\ ctr = <<3, 2, 1>>

\* C17: a malformed data row (fewer than two fields, a label that is not an
\* integer or not 0 or 1, a score that is not a number) makes the reader
\* return an error and no values or labels; the reader does not crash.
HeaderOK == Len(table) >= 1 /\ HeaderOutcome(table[1]).kind = "ok"

LabelField(row) == row[HeaderOutcome(table[1]).il + 1]

ScoreField(row) == row[HeaderOutcome(table[1]).ip + 1]

MalformedRow(row) ==
  \/ Len(row) < 2
  \/ LabelField(row) \notin {"0", "1"}
  \/ ScoreField(row) \notin {"0", "1", "2", "0.5"}

C17_MalformedRowIsError ==
  (rd_pc \in {"done", "panic"} /\ HeaderOK
     /\ \E r \in 2..Len(table) : MalformedRow(table[r]))
  => (rd_pc = "done" /\ rd_err /\ rd_values = <<>> /\ rd_labels = <<>>)

\* C18: in the sweep of a non-empty valid dataset the last entry has Tp = 0
\* and Fp = 0, hence Fn = P and Tn = N, and the k-th entry (counted from 1)
\* has Tp + Fp <= P + N - k, so that no entry has Tp = P and Fp = N.
C18_NeverAllPositive ==
  (pc = "returned" /\ ValidInput /\ Len(in_values) >= 1) =>
     /\ ~err
     /\ Len(perf.Tr) >= 1
     /\ perf.Tp[Len(perf.Tr)] = 0
     /\ perf.Fp[Len(perf.Tr)] = 0
     /\ perf.Fn[Len(perf.Tr)] = Total(1)
     /\ perf.Tn[Len(perf.Tr)] = Total(0)
     /\ \A k \in SweepIdx :
          /\ perf.Tp[k] + perf.Fp[k] <= Total(1) + Total(0) - k
          /\ ~(perf.Tp[k] = Total(1) /\ perf.Fp[k] = Total(0))

C18_Witness ==
  /\ pc = "returned"
  /\ ~err
  /\ Len(perf.Tr) >= 2
  /\ Len(perf.Tr) < Len(in_values)
  /\ perf.Tp[1] + perf.Fp[1] = Len(in_values) - 1
  /\ perf.Tp[1] > 0
  /\ perf.Fp[1] > 0

\* the rows the reader does not crash on: a malformed one is an error
ReaderErrorsWhenNoPanic ==
  (rd_pc = "done" /\ HeaderOK /\ \E r \in 2..Len(table) : MalformedRow(table[r]))
  => (rd_err /\ rd_values = <<>> /\ rd_labels = <<>>)

====
